---- MODULE Spec2Model ----
(***************************************************************************)
(* react-lazy-image: the <Image> component of src/source/index.js, which   *)
(* fetches its source with one XMLHttpRequest when the element is in (or   *)
(* near) the viewport and aborts the request when the element leaves it    *)
(* before minLoaded percent was downloaded.                                *)
(*                                                                         *)
(* The component instance, its XMLHttpRequest and the pending FileReader   *)
(* jobs are one record (self).  Every method of the class is an operator   *)
(* from that record to the record after the call, so that the synchronous  *)
(* calls of the code (checkViewport -> fetch -> send -> loadstart handler, *)
(* abort() -> abort handler -> loadend handler) compose as the code runs   *)
(* them.  Each action of Next is one event the browser delivers.           *)
(***************************************************************************)
EXTENDS Integers, Sequences, FiniteSets

VARIABLES props, self, lastEvent, probe

vars == <<props, self, lastEvent, probe>>

(***************************************************************************)
(* Bounds of the model.                                                    *)
(***************************************************************************)
\* Transfers (fetch() calls) one instance may start.
MaxTransfers == 2
\* Size in bytes of a response body; progress events report 1..MaxTotal.
MaxTotal == 3
\* Progress events the transport dispatches during one transfer.
MaxProgress == 1
\* The largest `offset` prop tried (the other one is the default, 0).
MaxOffset == 1
\* window.innerWidth / window.innerHeight and the element's side, in pixels.
ViewportWidth == 2
ViewportHeight == 2
ElemSize == 1

(***************************************************************************)
(* Program constants.                                                      *)
(***************************************************************************)
\* defaultProps.offset
DefaultOffset == 0
\* defaultProps.minLoaded
DefaultMinLoaded == 50
\* the initial value of progress.total
InitialTotal == 1

\* defaultProps.type
DefaultType == "*"

Offsets == {DefaultOffset, MaxOffset}
MinLoadedValues == {0, DefaultMinLoaded, 100}
\* HTTP statuses a response may carry.
Statuses == {200, 404}
Transfers == 1..MaxTransfers

\* request.response before a body was received (null).
Null == <<>>
\* The bytes the server sent as the body of transfer t.
Body(t) == <<"bytes", t>>

\* state.image starts as props.defaultSource (the spinner).
DefaultSource == [scheme |-> "spinner", type |-> <<>>, payload |-> Null]

(***************************************************************************)
(* Geometry.                                                               *)
(***************************************************************************)
\* element.getBoundingClientRect() of an element whose corner is at (left, top).
getBoundingClientRect(left, top) ==
  [top |-> top, left |-> left, bottom |-> top + ElemSize, right |-> left + ElemSize,
   width |-> ElemSize, height |-> ElemSize]

\* Where scrolling may put the element: in view, just below the viewport
\* (in view only with an offset), and to the right of it, beyond any offset.
Positions ==
  { <<0, 0>>, <<0, ViewportHeight>>, <<ViewportWidth + MaxOffset, 0>> }

Rects == { getBoundingClientRect(p[1], p[2]) : p \in Positions }

IsInViewportShrinking(r, viewportWidth, viewportHeight, offset) ==
  /\ r.bottom >= (0 - offset)
  /\ r.right >= (0 - offset)
  /\ r.top < (viewportHeight - offset)
  /\ r.left < (viewportWidth + offset)

IsInViewportSwapped(r, viewportWidth, viewportHeight, offset) ==
  /\ r.bottom >= (0 - offset)
  /\ r.right >= (0 - offset)
  /\ r.top < (viewportWidth + offset)
  /\ r.left < (viewportHeight + offset)

\* get isInViewport(), as a function of what it reads.
IsInViewport(r, viewportWidth, viewportHeight, offset) ==
  /\ r.bottom >= (0 - offset)
  /\ r.right >= (0 - offset)
  /\ r.top < (viewportHeight + offset)
  /\ r.left < (viewportWidth + offset)

isInViewport(r) == IsInViewport(r, ViewportWidth, ViewportHeight, props.offset)

(***************************************************************************)
(* get amountLoaded(): (progress.loaded * 100) / progress.total, a float.  *)
(* The two tests checkViewport makes on it, without the division:          *)
(* 0/0 is NaN, x/0 is Infinity for x > 0.                                  *)
(***************************************************************************)
amountLoadedIsNaN(s) == s.progress.total = 0 /\ s.progress.loaded = 0

amountLoadedLessThan(s, minLoaded) ==
  /\ s.progress.total > 0
  /\ s.progress.loaded * 100 < minLoaded * s.progress.total

(***************************************************************************)
(* Callbacks.  this.props.onX({ element }) is recorded in the log of the   *)
(* transfer whose event caused it.                                         *)
(***************************************************************************)
Emit(s, t, name) == [s EXCEPT !.callbacks[t] = Append(@, name)]

(***************************************************************************)
(* read-blob-file.js: readBlobFile(file) starts a FileReader on the blob   *)
(* and returns a promise; the reader's loadend settles it later.           *)
(***************************************************************************)
readBlobFile(s, file) ==
  [s EXCEPT !.reads = @ \cup {file}, !.xfer[file.of].reader = "pending"]

\* reader.result of readAsDataURL(file).
DataURL(file) == [scheme |-> "data", type |-> file.type, payload |-> file.data]

(***************************************************************************)
(* The request's event handlers.                                           *)
(***************************************************************************)
handleLoadStart(s, event) ==
  LET s1 == [s EXCEPT !.isRequesting = TRUE]
      s2 == IF event.lengthComputable
            THEN [s1 EXCEPT !.progress = [loaded |-> 0, total |-> event.total]]
            ELSE s1
  IN Emit(s2, s.request.transfer, "onLoadStart")

handleProgress(s, event) ==
  LET s1 == IF event.lengthComputable
            THEN [s EXCEPT !.progress.loaded = event.loaded]
            ELSE s
  IN Emit(s1, s.request.transfer, "onProgress")

handleLoadSilent(s) == [s EXCEPT !.isRequesting = FALSE]

handleLoad(s) ==
  Emit([s EXCEPT !.isRequesting = FALSE], s.request.transfer, "onLoad")

handleLoadEndUnchecked(s) ==
  readBlobFile(s, [data |-> s.request.response, of |-> s.request.transfer,
                   type |-> <<"image", props.type>>])

\* The synchronous part: the status test and the start of the conversion.
handleLoadEnd(s) ==
  IF s.request.status >= 200 /\ s.request.status < 300
  THEN readBlobFile(s, [data |-> s.request.response, of |-> s.request.transfer,
                        type |-> <<"image", props.type>>])
  ELSE s

onImageReadKeepListener(s, file) ==
  IF s.mounted = "mounted"
  THEN Emit([s EXCEPT !.image = DataURL(file), !.isRequesting = FALSE],
            file.of, "onLoadEnd")
  ELSE s

\* The .then() callback of handleLoadEnd: setState({ image }, callback).
\* React drops the update and its callback once the component is unmounted.
onImageRead(s, file) ==
  IF s.mounted = "mounted"
  THEN Emit([s EXCEPT !.image = DataURL(file), !.listening = FALSE,
                      !.isRequesting = FALSE],
            file.of, "onLoadEnd")
  ELSE s

\* The .catch() callback of handleLoadEnd.
onImageReadError(s, file) ==
  Emit([s EXCEPT !.isRequesting = FALSE], file.of, "onError")

handleError(s) ==
  Emit([s EXCEPT !.isRequesting = FALSE], s.request.transfer, "onError")

handleAbort(s) ==
  Emit([s EXCEPT !.isRequesting = FALSE], s.request.transfer, "onAbort")

(***************************************************************************)
(* XMLHttpRequest, as the XHR standard defines the calls the code makes.   *)
(***************************************************************************)
\* send() fires loadstart "with 0 and 0": its total is never computable.
LoadStartEvent == [lengthComputable |-> FALSE, loaded |-> 0, total |-> 0]

\* request.open('GET', source); request.send(): open() silently terminates a
\* fetch still going on, send() dispatches loadstart before it returns.
XhrOpenSend(s) ==
  LET t  == s.started + 1
      s1 == IF s.request.readyState \in {"OPENED", "LOADING"}
            THEN [s EXCEPT !.xfer[s.request.transfer].phase = "superseded"]
            ELSE s
      s2 == [s1 EXCEPT !.started = t,
                       !.xfer[t].phase = "inflight",
                       !.request = [readyState |-> "OPENED", status |-> 0,
                                    response |-> Null, transfer |-> t,
                                    lengthComputable |-> FALSE, total |-> 0,
                                    loaded |-> 0, events |-> 0]]
  IN handleLoadStart(s2, LoadStartEvent)

\* The request once its fetch is over: what the transport knew of the body's
\* length and of the bytes received is gone with the fetch.
Finished(request, readyState, status, response) ==
  [request EXCEPT !.readyState = readyState, !.status = status,
                  !.response = response, !.lengthComputable = FALSE,
                  !.total = 0, !.loaded = 0, !.events = 0]

\* request.abort(): a request in flight is ended and gets abort, then loadend,
\* before abort() returns; a finished or unsent one gets no event.
XhrAbort(s) ==
  IF s.request.readyState \in {"OPENED", "LOADING"}
  THEN LET s1 == [s EXCEPT !.request = Finished(s.request, "UNSENT", 0, Null),
                           !.xfer[s.request.transfer].phase = "aborted",
                           !.xfer[s.request.transfer].status = 0]
       IN handleLoadEnd(handleAbort(s1))
  ELSE IF s.request.readyState = "DONE"
  THEN [s EXCEPT !.request = Finished(s.request, "UNSENT", 0, Null)]
  ELSE s

(***************************************************************************)
(* fetch() and checkViewport().                                            *)
(***************************************************************************)
\* fetch() assigns the six handlers above to the request (the same ones on
\* every call), then opens and sends it.
fetch(s) == XhrOpenSend(s)

checkViewportIgnoreRequesting(s, r) ==
  IF isInViewport(r)
  THEN fetch(s)
  ELSE IF ~isInViewport(r) /\ s.isRequesting
  THEN IF amountLoadedLessThan(s, props.minLoaded) \/ amountLoadedIsNaN(s)
       THEN XhrAbort(s)
       ELSE s
  ELSE s

checkViewportNoThreshold(s, r) ==
  IF isInViewport(r) /\ ~s.isRequesting
  THEN fetch(s)
  ELSE IF ~isInViewport(r) /\ s.isRequesting
  THEN XhrAbort(s)
  ELSE s

checkViewport(s, r) ==
  IF isInViewport(r) /\ ~s.isRequesting
  THEN fetch(s)
  ELSE IF ~isInViewport(r) /\ s.isRequesting
  THEN IF amountLoadedLessThan(s, props.minLoaded) \/ amountLoadedIsNaN(s)
       THEN XhrAbort(s)
       ELSE s
  ELSE s

(***************************************************************************)
(* Lifecycle methods.                                                      *)
(***************************************************************************)
\* onLayout, which componentDidMount and componentDidUpdate emit, belongs to
\* no transfer and is not logged.
componentDidMount(s, r) ==
  LET s1 == [s EXCEPT !.mounted = "mounted",
                      !.request.readyState = "UNSENT",
                      !.listening = TRUE]
  IN checkViewport(s1, r)

componentWillUnmountKeepListener(s) ==
  XhrAbort([s EXCEPT !.mounted = "unmounted"])

componentWillUnmount(s) ==
  XhrAbort([s EXCEPT !.mounted = "unmounted", !.listening = FALSE])

(***************************************************************************)
(* The state after construction.                                           *)
(***************************************************************************)
\* The event delivered last; for mount and scroll, with the bounding rect
\* the handler read from the element.
Event(name) == [name |-> name, rect |-> <<>>]
Seen(name, r) == [name |-> name, rect |-> r]

NoTransfer == [phase |-> "none", status |-> 0, reader |-> "none"]

\* `probe` is used only by ViewportSpec below.
NoProbe == <<>>

Constructed ==
  /\ props \in [offset : Offsets, minLoaded : MinLoadedValues, type : {DefaultType}]
  /\ lastEvent = Event("construct")
  /\ self = [mounted      |-> "constructed",
             image        |-> DefaultSource,
             isRequesting |-> FALSE,
             progress     |-> [loaded |-> 0, total |-> InitialTotal],
             listening    |-> FALSE,
             request      |-> [readyState |-> "NONE", status |-> 0,
                               response |-> Null, transfer |-> 0,
                               lengthComputable |-> FALSE, total |-> 0,
                               loaded |-> 0, events |-> 0],
             reads        |-> {},
             started      |-> 0,
             callbacks    |-> [t \in Transfers |-> <<>>],
             xfer         |-> [t \in Transfers |-> NoTransfer]]

Init == Constructed /\ probe = NoProbe

(***************************************************************************)
(* Events.                                                                 *)
(***************************************************************************)
Mount(r) ==
  /\ self.mounted = "constructed"
  /\ self' = componentDidMount(self, r)
  /\ lastEvent' = Seen("mount", r)
  /\ UNCHANGED <<props, probe>>

\* The window scrolls while the element is at r: the listener, if still
\* registered, runs checkViewport.  No transfer beyond MaxTransfers is started.
Scroll(r) ==
  /\ self.mounted # "constructed"
  /\ LET next == IF self.listening THEN checkViewport(self, r) ELSE self
     IN /\ next.started <= MaxTransfers
        /\ self' = next
  /\ lastEvent' = Seen("scroll", r)
  /\ UNCHANGED <<props, probe>>

\* The response's headers arrive: its status and whether it has a length.
XhrHeaders(status, computable) ==
  /\ self.request.readyState = "OPENED"
  /\ self' = [self EXCEPT !.request.readyState = "LOADING",
                          !.request.status = status,
                          !.request.lengthComputable = computable,
                          !.request.total = IF computable THEN MaxTotal ELSE 0,
                          !.xfer[self.request.transfer].status = status]
  /\ lastEvent' = Event("headers")
  /\ UNCHANGED <<props, probe>>

\* A progress event: `loaded` bytes of the body were received so far.
XhrProgress(loaded) ==
  /\ self.request.readyState = "LOADING"
  /\ loaded > self.request.loaded
  /\ self.request.events < MaxProgress
  /\ self' = handleProgress([self EXCEPT !.request.loaded = loaded,
                                         !.request.events = @ + 1],
                            [lengthComputable |-> self.request.lengthComputable,
                             loaded |-> loaded,
                             total |-> self.request.total])
  /\ lastEvent' = Event("progress")
  /\ UNCHANGED <<props, probe>>

\* The body is complete: load, then loadend, are dispatched one after the other.
XhrLoad ==
  /\ self.request.readyState = "LOADING"
  /\ LET t  == self.request.transfer
         s1 == [self EXCEPT !.request = Finished(self.request, "DONE",
                                                     self.request.status, Body(t)),
                            !.xfer[t].phase = "loaded"]
     IN self' = handleLoadEnd(handleLoad(s1))
  /\ lastEvent' = Event("load")
  /\ UNCHANGED <<props, probe>>

\* A network error: error, then loadend; the response is a network error.
XhrError ==
  /\ self.request.readyState \in {"OPENED", "LOADING"}
  /\ LET t  == self.request.transfer
         s1 == [self EXCEPT !.request = Finished(self.request, "DONE", 0, Null),
                            !.xfer[t].phase = "error",
                            !.xfer[t].status = 0]
     IN self' = handleLoadEnd(handleError(s1))
  /\ lastEvent' = Event("error")
  /\ UNCHANGED <<props, probe>>

\* A FileReader finishes without error: the promise resolves.
ReaderResolve(file) ==
  /\ file \in self.reads
  /\ self' = onImageRead([self EXCEPT !.reads = @ \ {file},
                                      !.xfer[file.of].reader = "resolved"], file)
  /\ lastEvent' = Event("resolve")
  /\ UNCHANGED <<props, probe>>

\* A FileReader finishes with reader.error set: the promise rejects.
ReaderReject(file) ==
  /\ file \in self.reads
  /\ self' = onImageReadError([self EXCEPT !.reads = @ \ {file},
                                           !.xfer[file.of].reader = "rejected"], file)
  /\ lastEvent' = Event("reject")
  /\ UNCHANGED <<props, probe>>

Unmount ==
  /\ self.mounted = "mounted"
  /\ self' = componentWillUnmount(self)
  /\ lastEvent' = Event("unmount")
  /\ UNCHANGED <<props, probe>>

Next ==
  \/ \E r \in Rects : Mount(r)
  \/ \E r \in Rects : Scroll(r)
  \/ \E status \in Statuses, computable \in BOOLEAN : XhrHeaders(status, computable)
  \/ \E loaded \in 1..MaxTotal : XhrProgress(loaded)
  \/ XhrLoad
  \/ XhrError
  \/ \E file \in self.reads : ReaderResolve(file)
  \/ \E file \in self.reads : ReaderReject(file)
  \/ Unmount

Spec == Init /\ [][Next]_vars

(***************************************************************************)
(* The viewport test on its own: isInViewport applied to bounded           *)
(* rectangles, viewport sizes and offsets.  `probe` holds one application; *)
(* the component is left as constructed.                                   *)
(***************************************************************************)
\* Coordinates of the rectangles tried are in -MaxCoord..MaxCoord.
MaxCoord == 3
\* Viewport widths and heights tried are in 1..MaxViewport.
MaxViewport == 2
\* Offsets tried are in 0..MaxProbeOffset.
MaxProbeOffset == 2

Coords == (0 - MaxCoord)..MaxCoord

ProbeRects ==
  { [top |-> t, left |-> l, bottom |-> b, right |-> r,
     width |-> r - l, height |-> b - t] :
      <<t, b, l, r>> \in { q \in Coords \X Coords \X Coords \X Coords :
                             q[1] <= q[2] /\ q[3] <= q[4] } }

\* The rectangle reflected through the viewport's centre in both axes.
Reflected(r, w, h) ==
  [top |-> h - r.bottom, left |-> w - r.right,
   bottom |-> h - r.top, right |-> w - r.left,
   width |-> r.width, height |-> r.height]

Measure(op, r, w, h, o) ==
  [op |-> op, rect |-> r, width |-> w, height |-> h, offset |-> o,
   inside |-> IsInViewport(r, w, h, o)]

ViewportInit ==
  /\ Constructed
  /\ props.offset = DefaultOffset
  /\ props.minLoaded = DefaultMinLoaded
  /\ probe \in { Measure("measure", r, w, h, 0) :
                   r \in ProbeRects, w \in 1..MaxViewport, h \in 1..MaxViewport }

\* The same rectangle and viewport, tested with the offset one pixel larger.
Widen ==
  /\ probe.offset < MaxProbeOffset
  /\ probe' = Measure("widen", probe.rect, probe.width, probe.height,
                      probe.offset + 1)
  /\ UNCHANGED <<props, self, lastEvent>>

\* The same viewport and offset, tested with the rectangle reflected.
Reflect ==
  /\ probe' = Measure("reflect", Reflected(probe.rect, probe.width, probe.height),
                      probe.width, probe.height, probe.offset)
  /\ UNCHANGED <<props, self, lastEvent>>

ViewportNext == Widen \/ Reflect

ViewportSpec == ViewportInit /\ [][ViewportNext]_vars

(***************************************************************************)
(* Vocabulary of the properties.                                           *)
(***************************************************************************)
Range(seq) == { seq[i] : i \in 1..Len(seq) }
Count(seq, names) == Cardinality({ i \in 1..Len(seq) : seq[i] \in names })

\* The request is open and its fetch has not ended.
InFlight(s) == s.request.readyState \in {"OPENED", "LOADING"}

\* The transport has reported the loaded and total byte counts of the
\* transfer in flight: a length-computable progress event was dispatched.
ProgressKnown(s) ==
  /\ s.request.readyState = "LOADING"
  /\ s.request.lengthComputable
  /\ s.request.events > 0

\* This step is a scroll notification delivered to the registered listener
\* that finds the element outside the expanded viewport during a transfer.
LeavesViewportWhileRequesting ==
  /\ lastEvent'.name = "scroll"
  /\ self.listening
  /\ ~isInViewport(lastEvent'.rect)
  /\ self.isRequesting
  /\ InFlight(self)

\* This step runs checkViewport: the mount, or a scroll that is listened to.
EvaluatesVisibility ==
  \/ lastEvent'.name = "mount"
  \/ lastEvent'.name = "scroll" /\ self.listening

\* Transfer t was started and neither its fetch nor its conversion is pending.
Active(s, t) == s.xfer[t].phase = "inflight" \/ s.xfer[t].reader = "pending"
Ended(s, t) == s.xfer[t].phase # "none" /\ ~Active(s, t)

Outcomes == {"onError", "onAbort", "onLoadEnd"}
Success == 200..299

(***************************************************************************)
(* C1: whenever a visibility evaluation finds the element outside the      *)
(* expanded viewport during a transfer whose reported percentage           *)
(* (loaded * 100 / total) is below minLoaded, the transfer is aborted.     *)
(***************************************************************************)
C1_AbortBelowThreshold ==
  [][ ( /\ LeavesViewportWhileRequesting
        /\ ProgressKnown(self)
        /\ self.request.loaded * 100 < props.minLoaded * self.request.total )
      => self'.xfer[self.request.transfer].phase = "aborted" ]_vars

(***************************************************************************)
(* C2: a visibility evaluation that finds the element outside the expanded *)
(* viewport during a transfer whose reported percentage is at least        *)
(* minLoaded does not abort it: the request stays in flight, untouched.    *)
(***************************************************************************)
C2_NoAbortAtOrAboveThreshold ==
  [][ ( /\ LeavesViewportWhileRequesting
        /\ ProgressKnown(self)
        /\ self.request.loaded * 100 >= props.minLoaded * self.request.total )
      => /\ self'.xfer[self.request.transfer].phase = "inflight"
         /\ self'.request = self.request
         /\ self'.isRequesting
         /\ self'.callbacks = self.callbacks ]_vars

\* A scroll found the element outside at 1 of MaxTotal bytes or more, with a
\* positive threshold that the percentage reaches, and the transfer goes on.
C2_Witness ==
  /\ lastEvent.name = "scroll"
  /\ self.listening
  /\ ~isInViewport(lastEvent.rect)
  /\ self.isRequesting
  /\ ProgressKnown(self)
  /\ props.minLoaded > 0
  /\ self.request.loaded * 100 >= props.minLoaded * self.request.total
  /\ self.xfer[self.request.transfer].phase = "inflight"

(***************************************************************************)
(* C3: when the total size of the transfer in flight is unknown (none of   *)
(* its progress events was length-computable), a visibility evaluation     *)
(* that finds the element outside aborts it, for every minLoaded.          *)
(***************************************************************************)
C3_UnknownTotalAborts ==
  [][ (LeavesViewportWhileRequesting /\ ~ProgressKnown(self))
      => self'.xfer[self.request.transfer].phase = "aborted" ]_vars

(***************************************************************************)
(* C4: a visibility evaluation starts a transfer exactly when the element  *)
(* is inside the expanded viewport and isRequesting is false; one that     *)
(* finds it inside while requesting changes nothing; no other step starts  *)
(* a transfer.                                                             *)
(***************************************************************************)
C4_StartDecision ==
  [][ /\ EvaluatesVisibility =>
           /\ (self'.started = self.started + 1)
                <=> (isInViewport(lastEvent'.rect) /\ ~self.isRequesting)
           /\ (self'.started = self.started + 1)
                => /\ self'.isRequesting
                   /\ self'.xfer[self'.started].phase = "inflight"
           /\ (isInViewport(lastEvent'.rect) /\ self.isRequesting)
                => self' = self
      /\ self'.started # self.started => EvaluatesVisibility ]_vars

\* A scroll that found the element inside started the second transfer.
C4_Witness ==
  /\ lastEvent.name = "scroll"
  /\ isInViewport(lastEvent.rect)
  /\ self.started = 2
  /\ self.callbacks[2] = <<"onLoadStart">>
  /\ self.request.readyState = "OPENED"

(***************************************************************************)
(* C5: a new transfer is never started while an earlier transfer of the    *)
(* instance is still active (its fetch or its conversion pending).         *)
(***************************************************************************)
C5_AtMostOneActive ==
  [][ self'.started > self.started
      => \A t \in 1..self.started : ~Active(self, t) ]_vars

(***************************************************************************)
(* C6: the displayed image is the default or the converted body of a       *)
(* transfer that completed with a status in [200,300) and whose conversion *)
(* succeeded.                                                              *)
(***************************************************************************)
C6_ImageOnlyFromSuccess ==
  \/ self.image = DefaultSource
  \/ \E t \in Transfers :
       /\ self.image = DataURL([data |-> Body(t), of |-> t,
                                type |-> <<"image", props.type>>])
       /\ self.xfer[t].phase = "loaded"
       /\ self.xfer[t].status \in Success
       /\ self.xfer[t].reader = "resolved"

\* The image was replaced although some transfer of the instance was aborted.
C6_Witness ==
  /\ self.image # DefaultSource
  /\ \E t \in Transfers : self.xfer[t].phase \in {"aborted", "error"}

(***************************************************************************)
(* C7: once onLoadEnd was emitted, the scroll listener is removed and      *)
(* stays removed, and no later step starts a transfer.                     *)
(***************************************************************************)
LoadEndFired(s) == \E t \in Transfers : "onLoadEnd" \in Range(s.callbacks[t])

C7_SuccessFinality ==
  [][ LoadEndFired(self)
      => /\ ~self.listening
         /\ ~self'.listening
         /\ self'.started = self.started ]_vars

\* After onLoadEnd a scroll found the element inside, nothing was being
\* requested, a transfer was still allowed, and none was started.
C7_Witness ==
  /\ LoadEndFired(self)
  /\ lastEvent.name = "scroll"
  /\ isInViewport(lastEvent.rect)
  /\ self.mounted = "mounted"
  /\ ~self.isRequesting
  /\ ~InFlight(self)
  /\ self.started < MaxTransfers

(***************************************************************************)
(* C8: for every transfer that was started and has ended, exactly one of   *)
(* onError, onAbort, onLoadEnd was emitted.                                *)
(***************************************************************************)
C8_ExactlyOneOutcome ==
  \A t \in Transfers :
    Ended(self, t) => Count(self.callbacks[t], Outcomes) = 1

(***************************************************************************)
(* C9: for every transfer that has ended, onLoad was emitted exactly once  *)
(* and after the outcome callback.                                         *)
(***************************************************************************)
C9_OnLoadOnceAfterOutcome ==
  \A t \in Transfers :
    Ended(self, t) =>
      /\ Count(self.callbacks[t], {"onLoad"}) = 1
      /\ \A i, j \in 1..Len(self.callbacks[t]) :
           (self.callbacks[t][i] \in Outcomes /\ self.callbacks[t][j] = "onLoad")
             => i < j

(***************************************************************************)
(* C10: when the transport completes a transfer with a status outside      *)
(* [200,300), onError is emitted, isRequesting becomes false and the       *)
(* displayed image is unchanged.                                           *)
(***************************************************************************)
C10_BadStatusIsError ==
  [][ \A t \in Transfers :
        ( /\ self.xfer[t].phase = "inflight"
          /\ self'.xfer[t].phase = "loaded"
          /\ self'.xfer[t].status \notin Success )
        => /\ "onError" \in Range(self'.callbacks[t])
           /\ ~self'.isRequesting
           /\ self'.image = self.image ]_vars

(***************************************************************************)
(* C11: for a transfer that completed with a 2xx status and whose payload  *)
(* converts, the callbacks are onLoadStart, any number of onProgress,      *)
(* onLoad, then onLoadEnd, nothing else and nothing after; the step that   *)
(* emits onLoadEnd is the one that sets the displayed image.               *)
(***************************************************************************)
ConversionOf(t) ==
  DataURL([data |-> Body(t), of |-> t, type |-> <<"image", props.type>>])

\* onLoadStart, onProgress*, onLoad, and then onLoadEnd or nothing yet.
SuccessOrder(log) ==
  \E k \in 2..Len(log) :
    /\ log[1] = "onLoadStart"
    /\ \A i \in 2..(k - 1) : log[i] = "onProgress"
    /\ log[k] = "onLoad"
    /\ \/ Len(log) = k
       \/ Len(log) = k + 1 /\ log[k + 1] = "onLoadEnd"

\* Transfer t completed with a 2xx status and its conversion has not failed.
Succeeding(s, t) ==
  /\ s.xfer[t].phase = "loaded"
  /\ s.xfer[t].status \in Success
  /\ s.xfer[t].reader \in {"pending", "resolved"}

C11_SuccessCallbackOrder ==
  /\ [](\A t \in Transfers :
          Succeeding(self, t)
          => /\ SuccessOrder(self.callbacks[t])
             /\ self.xfer[t].reader = "pending"
                  => "onLoadEnd" \notin Range(self.callbacks[t]))
  /\ [][ \A t \in Transfers :
          /\ ( /\ self.xfer[t].reader = "pending"
               /\ self'.xfer[t].reader = "resolved"
               /\ self.mounted = "mounted"
               /\ Succeeding(self', t) )
               => /\ self'.callbacks[t] = Append(self.callbacks[t], "onLoadEnd")
                  /\ self'.image = ConversionOf(t)
          /\ ( /\ self'.callbacks[t] # self.callbacks[t]
               /\ Succeeding(self', t) )
               => "onLoadEnd" \notin Range(self.callbacks[t]) ]_vars

\* A transfer went through all four stages and its image is displayed.
C11_Witness ==
  \E t \in Transfers :
    /\ self.callbacks[t] = <<"onLoadStart", "onProgress", "onLoad", "onLoadEnd">>
    /\ self.xfer[t].status \in Success
    /\ self.image = ConversionOf(t)

(***************************************************************************)
(* C12: isRequesting is true if and only if some transfer of the instance  *)
(* was started and has not reached a terminal state: its fetch is in       *)
(* flight, or the conversion of its 2xx payload is still pending.          *)
(***************************************************************************)
C12_RequestingIffActive ==
  self.isRequesting <=> (\E t \in Transfers : Active(self, t))

(***************************************************************************)
(* C13: once onAbort was emitted for a transfer, nothing that belongs to   *)
(* that transfer happens any more: no conversion of it is pending or       *)
(* settled, its log and record never change, the displayed image is never  *)
(* set from it, and isRequesting changes only with a callback of another   *)
(* transfer.                                                               *)
(***************************************************************************)
C13_NothingAfterAbort ==
  [][ \A t \in Transfers :
        "onAbort" \in Range(self.callbacks[t])
        => /\ self.xfer[t].reader = "none"
           /\ \A file \in self.reads : file.of # t
           /\ self'.callbacks[t] = self.callbacks[t]
           /\ self'.xfer[t] = self.xfer[t]
           /\ self'.image # self.image
                => \E u \in Transfers \ {t} : self'.image = ConversionOf(u)
           /\ self'.isRequesting # self.isRequesting
                => \E u \in Transfers \ {t} :
                     self'.callbacks[u] # self.callbacks[u] ]_vars

\* The first transfer was aborted; a later one loaded and was displayed.
C13_Witness ==
  /\ self.callbacks[1] = <<"onLoadStart", "onAbort">>
  /\ self.xfer[2].phase = "loaded"
  /\ self.xfer[2].reader = "resolved"
  /\ self.image = ConversionOf(2)

(***************************************************************************)
(* C14: when a transfer of a mounted instance ends in a transport error, a *)
(* failed conversion or an abort, the instance is idle again: isRequesting *)
(* is false, the displayed image is unchanged and the scroll listener is   *)
(* still registered; the next visibility evaluation that finds the element *)
(* inside starts a new transfer, and nothing else starts one.              *)
(***************************************************************************)
\* This step ends transfer t in an error, an abort or a rejected conversion.
EndsInFailure(t) ==
  \/ /\ self.xfer[t].phase = "inflight"
     /\ self'.xfer[t].phase \in {"error", "aborted"}
  \/ /\ self.xfer[t].reader = "pending"
     /\ self'.xfer[t].reader = "rejected"

C14_RetryEligibility ==
  [][ /\ \A t \in Transfers :
           (EndsInFailure(t) /\ self'.mounted = "mounted")
           => /\ ~self'.isRequesting
              /\ self'.image = self.image
              /\ self'.listening
      /\ ( /\ EvaluatesVisibility
           /\ isInViewport(lastEvent'.rect)
           /\ ~self.isRequesting )
           => self'.started = self.started + 1
      /\ self'.started # self.started => EvaluatesVisibility ]_vars

(***************************************************************************)
(* C15: unmounting removes the scroll listener and aborts the transfer in  *)
(* flight, if any; after it no step starts a transfer; and onAbort is      *)
(* emitted only by the unmount or by a visibility evaluation that finds    *)
(* the element outside during a transfer.                                  *)
(***************************************************************************)
C15_Teardown ==
  [][ /\ (self.mounted = "mounted" /\ self'.mounted = "unmounted")
           => /\ ~self'.listening
              /\ ~InFlight(self')
              /\ InFlight(self)
                   => /\ self'.xfer[self.request.transfer].phase = "aborted"
                      /\ self'.callbacks[self.request.transfer]
                           = Append(self.callbacks[self.request.transfer], "onAbort")
      /\ self.mounted = "unmounted"
           => /\ ~self.listening
              /\ self'.mounted = "unmounted"
              /\ self'.started = self.started
              /\ ~InFlight(self')
      /\ self'.callbacks # self.callbacks
           => \A t \in Transfers :
                Count(self'.callbacks[t], {"onAbort"})
                  # Count(self.callbacks[t], {"onAbort"})
                => \/ self.mounted = "mounted" /\ self'.mounted = "unmounted"
                   \/ LeavesViewportWhileRequesting ]_vars

\* With minLoaded = 0 no visibility evaluation aborts, so this onAbort came
\* from the unmount; a scroll then found the element inside, a transfer was
\* still allowed, and none was started.
C15_Witness ==
  /\ props.minLoaded = 0
  /\ self.mounted = "unmounted"
  /\ "onAbort" \in Range(self.callbacks[1])
  /\ lastEvent.name = "scroll"
  /\ isInViewport(lastEvent.rect)
  /\ ~self.isRequesting
  /\ self.started < MaxTransfers

(***************************************************************************)
(* C16 - The viewport test is monotonic in the offset: for every rectangle,*)
(* viewport size and offsets 0 <= O1 <= O2, a rectangle that is in the     *)
(* viewport with offset O1 is in the viewport with offset O2.  Each step   *)
(* that keeps the rectangle and does not lower the offset keeps a true     *)
(* result true (checked under ViewportSpec, where the offset grows one     *)
(* pixel at a time).                                                       *)
(***************************************************************************)
C16_MonotonicInOffset ==
  [][ ( /\ probe'.rect = probe.rect
        /\ probe'.width = probe.width
        /\ probe'.height = probe.height
        /\ probe'.offset >= probe.offset
        /\ probe.inside )
      => probe'.inside ]_vars

\* A rectangle touching the top-left corner from outside, in the viewport at
\* offset 0 already, tested again at the largest offset.
C16_Witness ==
  /\ probe.op = "widen"
  /\ probe.offset = MaxProbeOffset
  /\ probe.rect.bottom = 0
  /\ probe.rect.right = 0
  /\ IsInViewport(probe.rect, probe.width, probe.height, 0)
  /\ probe.inside

\* The rectangle of the probe touches none of the four lines the test compares
\* against: bottom = -offset, right = -offset, top = height + offset,
\* left = width + offset.
OffEdges(p) ==
  /\ p.rect.bottom # 0 - p.offset
  /\ p.rect.right # 0 - p.offset
  /\ p.rect.top # p.height + p.offset
  /\ p.rect.left # p.width + p.offset

\* A step that tests the reflection of the rectangle tested before.
ReflectStep ==
  /\ probe'.op = "reflect"
  /\ probe'.rect = Reflected(probe.rect, probe.width, probe.height)
  /\ probe'.width = probe.width
  /\ probe'.height = probe.height
  /\ probe'.offset = probe.offset

(***************************************************************************)
(* C17 - The viewport test is symmetric under reflection: for every        *)
(* rectangle, viewport size and offset, the test gives the same result for *)
(* the rectangle and for its reflection through the viewport centre in     *)
(* both axes, including rectangles lying exactly on the expanded           *)
(* viewport's edges.  As stated.                                           *)
(***************************************************************************)
C17_SymmetricUnderReflection ==
  [][ ReflectStep => (probe'.inside = probe.inside) ]_vars

(***************************************************************************)
(* C17 amended - The same, for every rectangle that touches none of the    *)
(* four lines bottom = -O, right = -O, top = H + O, left = W + O.          *)
(***************************************************************************)
C17_SymmetricOffEdges ==
  [][ (ReflectStep /\ OffEdges(probe)) => (probe'.inside = probe.inside) ]_vars

\* The reflection of a rectangle that is in the viewport, off the edges and
\* not its own mirror image has been tested and is in the viewport too.
C17_Witness ==
  /\ probe.op = "reflect"
  /\ OffEdges(probe)
  /\ probe.inside
  /\ probe.offset > 0
  /\ Reflected(probe.rect, probe.width, probe.height) # probe.rect

\* This step delivers a progress event of the transfer in flight.
ProgressStep ==
  /\ lastEvent'.name = "progress"
  /\ self.request.readyState = "LOADING"
  /\ self'.request.events = self.request.events + 1

(***************************************************************************)
(* C18 - A progress event with known total carrying (loaded = L, total =   *)
(* T) leaves the instance's progress equal to {loaded: L, total: T}; one   *)
(* with unknown total changes neither field; in both cases isRequesting    *)
(* and the displayed image are unchanged and onProgress is emitted.        *)
(***************************************************************************)
C18_ProgressEventEffect ==
  [][ ProgressStep =>
        /\ IF self'.request.lengthComputable
           THEN self'.progress = [loaded |-> self'.request.loaded,
                                  total  |-> self'.request.total]
           ELSE self'.progress = self.progress
        /\ self'.isRequesting = self.isRequesting
        /\ self'.image = self.image
        /\ self'.callbacks =
             [self.callbacks EXCEPT ![self.request.transfer] =
                                       Append(@, "onProgress")] ]_vars

(***************************************************************************)
(* C19 - Every start of a transfer, a retry after a failed or aborted one  *)
(* included, sets isRequesting to true and resets progress to {loaded: 0,  *)
(* total: 1} before any progress event of the new transfer.                *)
(***************************************************************************)
C19_StartResetsProgress ==
  [][ self'.started = self.started + 1 =>
        /\ self'.isRequesting
        /\ self'.progress = [loaded |-> 0, total |-> InitialTotal] ]_vars

\* The transfers whose conversion has set the image and emitted onLoadEnd.
Loaded(s) == { t \in Transfers : "onLoadEnd" \in Range(s.callbacks[t]) }

(***************************************************************************)
(* C20 - An instance completes at most one successful load: no transfer is *)
(* started while the conversion of an earlier one is pending, onLoadEnd is *)
(* emitted (and the image set) for at most one transfer, and no transfer   *)
(* is in flight or converting once onLoadEnd was emitted.                  *)
(***************************************************************************)
C20_AtMostOneSuccessfulLoad ==
  /\ \A t, u \in Transfers :
       (t < u /\ self.xfer[t].reader = "pending") => self.xfer[u].phase = "none"
  /\ Cardinality(Loaded(self)) <= 1
  /\ LoadEndFired(self) => \A t \in Transfers : ~Active(self, t)

====
